---- MODULE Spec2Model ----
(***************************************************************************)
(* Model of the experience-replay core of Pearl / anvil:                   *)
(*   - ReplayBuffer.add_trajectory and ReplayBuffer.sample                 *)
(*     (src/anvil/buffers/replay_buffer.py)                                *)
(*   - DQN._fit (src/anvil/agents/dqn.py)                                  *)
(*   - DeepRegression.__call__ and BaseDeepUpdater.run_optimizer           *)
(*     (src/pearll/updaters/environment.py)                                *)
(* Three specifications share the variables:                               *)
(*   Spec     the buffer alone: any interleaving of add_trajectory and     *)
(*            sample on a buffer of capacity 1..MaxBufferSize;             *)
(*   SpecDQN  the agent: transitions are collected into the buffer while   *)
(*            the agent is idle, and _fit runs step by step;               *)
(*   SpecUpdater  the regression updater: __call__ runs step by step.      *)
(***************************************************************************)
EXTENDS Integers, Sequences, FiniteSets, TLC

----------------------------------------------------------------------------
(* Bounds of the model *)

MaxBufferSize == 3
MaxAdds == 4
MaxBatchSize == 2
MaxObs == 1
MaxReward == 1
MaxAction == 0
MaxParam == 1
GammaScale == 2
MaxCollect == 2
MaxEpochs == 2
MaxInput == 2
MaxTarget == 2
MaxGradBound == 2
MaxUpdaterCalls == 2

ObsVals == 0..MaxObs
Rewards == 0..MaxReward
Actions == 0..MaxAction
Dones == {0, 1}
\* discount factors gamma = g / GammaScale, g \in Gammas
Gammas == 0..GammaScale

----------------------------------------------------------------------------
(* Buffer state.  pos, full and the four arrays are the fields of the     *)
(* buffer; batch_inds, trajectories and raised are the outcome of the     *)
(* last sample call; the remaining variables are history variables that   *)
(* record which add_trajectory call wrote what.                           *)

VARIABLES
    buffer_size,     \* capacity C
    pos,             \* write cursor
    full,            \* TRUE once the cursor has wrapped
    observations,    \* [0..C-1 -> ObsVals]
    actions,         \* [0..C-1 -> Actions]
    rewards,         \* [0..C-1 -> Rewards]
    dones,           \* [0..C-1 -> Dones]
    lastOp,          \* "init", "add" or "sample": the last buffer operation
    batch_inds,      \* indices drawn by the last sample (<<>> if none)
    trajectories,    \* batch returned by the last sample
    raised,          \* TRUE iff the last sample raised (empty index range)
    numAdds,         \* history: number of add_trajectory calls so far
    slotCall,        \* history: call (1..) that last wrote action/reward/done of slot i, 0 = never
    obsCall,         \* history: call that last wrote observations[i], 0 = never
    obsRole,         \* history: "none", "obs" or "next": argument that last wrote observations[i]
    obsArg,          \* history: observation passed by the call that last wrote slot i
    nextArg,         \* history: next_observation passed by the call that last wrote slot i
    \* the agent (DQN); all "none" when only the buffer is modelled
    pc,              \* position in DQN._fit: "idle", "sample", "target", "update", "sync", "error"
    critic,          \* parameters of the online critic
    target_critic,   \* parameters of the target critic
    gamma,           \* discount numerator of TD_zero (gamma / GammaScale)
    fit_args,        \* [batch_size, critic_epochs] of the running _fit call
    i,               \* epoch counter of the loop in _fit
    next_q_values,   \* max target-critic value of each next observation
    target_q_values, \* TD targets of the current batch, scaled by GammaScale
    critic_losses,   \* loss reported by the updater for each epoch so far
    log,             \* value returned by the last _fit
    targetAtEntry,   \* history: target critic parameters when _fit was entered
    syncs,           \* history: assign_targets calls of the current _fit call
    \* the regression updater (DeepRegression); "none" when it is not modelled
    upd              \* record: position in __call__, the model, the optimizer, the loss

bufVars == <<buffer_size, pos, full, observations, actions, rewards, dones>>
sampleVars == <<batch_inds, trajectories, raised>>
histVars == <<numAdds, slotCall, obsCall, obsRole, obsArg, nextArg>>
dqnVars == <<pc, critic, target_critic, gamma, fit_args, i, next_q_values,
             target_q_values, critic_losses, log, targetAtEntry, syncs>>
otherVars == <<bufVars, lastOp, sampleVars, histVars, dqnVars>>
vars == <<otherVars, upd>>

Slots == 0..(buffer_size - 1)

NoTrajectories ==
    [observations |-> <<>>, actions |-> <<>>, rewards |-> <<>>,
     next_observations |-> <<>>, dones |-> <<>>]

(* ReplayBuffer.__init__ hands every argument to the base buffer, which     *)
(* allocates the arrays and sets the cursor; that base class is outside the *)
(* modelled files, so the initial values follow the data model of the       *)
(* specification: pos = 0, full = false, arrays of zeros.                   *)
BufferInit ==
    /\ buffer_size \in 1..MaxBufferSize
    /\ pos = 0
    /\ full = FALSE
    /\ observations = [s \in Slots |-> 0]
    /\ actions = [s \in Slots |-> 0]
    /\ rewards = [s \in Slots |-> 0]
    /\ dones = [s \in Slots |-> 0]
    /\ lastOp = "init"
    /\ batch_inds = <<>>
    /\ trajectories = NoTrajectories
    /\ raised = FALSE
    /\ numAdds = 0
    /\ slotCall = [s \in Slots |-> 0]
    /\ obsCall = [s \in Slots |-> 0]
    /\ obsRole = [s \in Slots |-> "none"]
    /\ obsArg = [s \in Slots |-> 0]
    /\ nextArg = [s \in Slots |-> 0]

----------------------------------------------------------------------------
(* ReplayBuffer.add_trajectory *)

NextSlotSame(p) == p

NextSlotBefore(p) == (p + buffer_size - 1) % buffer_size

\* slot that receives next_observation
NextSlot(p) == (p + 1) % buffer_size

\* the two writes to observations, in program order (the second wins when
\* buffer_size = 1 and both name slot 0)
WriteObservations(obs, p, observation, next_observation) ==
    [[obs EXCEPT ![p] = observation] EXCEPT ![NextSlot(p)] = next_observation]

AdvancePosStay(p) == IF p + 1 = buffer_size THEN p ELSE p + 1

\* the cursor after the increment and the wrap test
AdvancePos(p) == IF p + 1 = buffer_size THEN 0 ELSE p + 1

AdvanceFullEarly(p, f) == IF p + 1 >= buffer_size - 1 THEN TRUE ELSE f

AdvanceFullNever(p, f) == f

AdvanceFull(p, f) == IF p + 1 = buffer_size THEN TRUE ELSE f

add_trajectory(observation, action, reward, next_observation, done) ==
    /\ observations' = WriteObservations(observations, pos, observation, next_observation)
    /\ actions' = [actions EXCEPT ![pos] = action]
    /\ rewards' = [rewards EXCEPT ![pos] = reward]
    /\ dones' = [dones EXCEPT ![pos] = done]
    /\ pos' = AdvancePos(pos)
    /\ full' = AdvanceFull(pos, full)
    /\ buffer_size' = buffer_size
    \* history
    /\ numAdds' = numAdds + 1
    /\ slotCall' = [slotCall EXCEPT ![pos] = numAdds + 1]
    /\ obsCall' = [[obsCall EXCEPT ![pos] = numAdds + 1]
                      EXCEPT ![NextSlot(pos)] = numAdds + 1]
    /\ obsRole' = [[obsRole EXCEPT ![pos] = "obs"]
                      EXCEPT ![NextSlot(pos)] = "next"]
    /\ obsArg' = [obsArg EXCEPT ![pos] = observation]
    /\ nextArg' = [nextArg EXCEPT ![pos] = next_observation]

----------------------------------------------------------------------------
(* ReplayBuffer.sample *)

\* np.random.randint(low, high, size): size draws from low..high-1;
\* raises ValueError when the range is empty
RandintRaises(low, high) == low >= high

Randint(low, high, size) == [1..size -> low..(high - 1)]

SampleLowZero == IF full THEN 0 ELSE 0

SampleHighInclusive == IF full THEN buffer_size ELSE pos + 1

SampleHighCapacity == IF full THEN buffer_size ELSE buffer_size

\* the index range and the offset of the two branches
SampleLow == IF full THEN 1 ELSE 0

SampleHigh == IF full THEN buffer_size ELSE pos

SampleOffsetNone(draw) == draw

SampleOffset(draw) == IF full THEN (draw + pos) % buffer_size ELSE draw

NextIndexSame(ind) == ind

\* the index whose observation is returned as next_observation
NextIndex(ind) == (ind + 1) % buffer_size

Gather(inds) ==
    [observations |-> [k \in 1..Len(inds) |-> observations[inds[k]]],
     actions |-> [k \in 1..Len(inds) |-> actions[inds[k]]],
     rewards |-> [k \in 1..Len(inds) |-> rewards[inds[k]]],
     next_observations |-> [k \in 1..Len(inds) |-> observations[NextIndex(inds[k])]],
     dones |-> [k \in 1..Len(inds) |-> dones[inds[k]]]]

sample(batch_size) ==
    IF RandintRaises(SampleLow, SampleHigh)
    THEN /\ raised' = TRUE
         /\ batch_inds' = <<>>
         /\ trajectories' = NoTrajectories
    ELSE \E draws \in Randint(SampleLow, SampleHigh, batch_size) :
            /\ raised' = FALSE
            /\ batch_inds' = [k \in 1..batch_size |-> SampleOffset(draws[k])]
            /\ trajectories' = Gather(batch_inds')

----------------------------------------------------------------------------
(* The buffer alone *)

NoAgent ==
    /\ pc = "none"
    /\ critic = "none"
    /\ target_critic = "none"
    /\ gamma = 0
    /\ fit_args = "none"
    /\ i = 0
    /\ next_q_values = <<>>
    /\ target_q_values = <<>>
    /\ critic_losses = <<>>
    /\ log = "none"
    /\ targetAtEntry = "none"
    /\ syncs = 0

NoUpdater == upd = "none"

Init == BufferInit /\ NoAgent /\ NoUpdater

AddTrajectory ==
    /\ numAdds < MaxAdds
    /\ \E observation \in ObsVals, action \in Actions, reward \in Rewards,
          next_observation \in ObsVals, done \in Dones :
          add_trajectory(observation, action, reward, next_observation, done)
    /\ lastOp' = "add"
    /\ batch_inds' = <<>>
    /\ trajectories' = NoTrajectories
    /\ raised' = FALSE
    /\ UNCHANGED dqnVars
    /\ UNCHANGED upd

SampleAdvancesCursor ==
    /\ \E batch_size \in 1..MaxBatchSize : sample(batch_size)
    /\ lastOp' = "sample"
    /\ pos' = AdvancePos(pos)
    /\ UNCHANGED <<buffer_size, full, observations, actions, rewards, dones,
                   histVars, dqnVars>>
    /\ UNCHANGED upd

Sample ==
    /\ \E batch_size \in 1..MaxBatchSize : sample(batch_size)
    /\ lastOp' = "sample"
    /\ UNCHANGED <<bufVars, histVars, dqnVars>>
    /\ UNCHANGED upd

Next == AddTrajectory \/ Sample

Spec == Init /\ [][Next]_vars

----------------------------------------------------------------------------
(* The agent: DQN._fit over the buffer.                                    *)
(* The model object (critic, target critic, assign_targets), TD_zero and   *)
(* the updater are collaborators of _fit that live outside the modelled    *)
(* files; they are modelled from the specification:                        *)
(*   - a critic is a linear head without bias, one weight per action;      *)
(*   - TD_zero is reward + gamma * (1 - done) * next_value;                *)
(*   - the updater takes one optimization step on the online critic, whose *)
(*     outcome is any parameter value, and reports the loss of the         *)
(*     predictions made before the step;                                   *)
(*   - assign_targets hard-copies the online critic into the target.       *)

Params == [Actions -> 0..MaxParam]

\* forward pass of a critic: one Q value per action
Forward(theta, observation) == [a \in Actions |-> theta[a] * observation]

Max(S) == CHOOSE x \in S : \A y \in S : y <= x

\* next_q_values.max(dim=-1)
MaxQ(theta, observation) ==
    Max({Forward(theta, observation)[a] : a \in Actions})

\* TD_zero(rewards, next_values, dones, gamma), elementwise; the result is
\* scaled by GammaScale (gamma = g / GammaScale)
TD_zero(rs, next_values, ds, g) ==
    [k \in 1..Len(rs) |-> GammaScale * rs[k] + g * (1 - ds[k]) * next_values[k]]

\* the loss the updater reports: squared error of the online critic's
\* prediction for the stored action against the target (sum over the batch,
\* in units of 1 / GammaScale^2)
Loss(theta, obs, acts, targets) ==
    LET err(k) == GammaScale * Forward(theta, obs[k])[acts[k]] - targets[k]
        sum[k \in 0..Len(obs)] == IF k = 0 THEN 0 ELSE sum[k - 1] + err(k) * err(k)
    IN sum[Len(obs)]

\* self.updater(self.model, observations, targets, actions_index): the
\* parameter values one optimization step can leave in the online critic
updater(theta) == Params

\* self.model.assign_targets(): hard copy of the online critic
assign_targets(online, target) == online

Sum(seq) ==
    LET sum[k \in 0..Len(seq)] == IF k = 0 THEN 0 ELSE sum[k - 1] + seq[k]
    IN sum[Len(seq)]

\* the model handed to DQN: the target critic starts as a copy of the critic
AgentInit ==
    /\ pc = "idle"
    /\ critic \in Params
    /\ target_critic = critic
    /\ gamma \in Gammas
    /\ fit_args = [batch_size |-> 0, critic_epochs |-> 0]
    /\ i = 0
    /\ next_q_values = <<>>
    /\ target_q_values = <<>>
    /\ critic_losses = <<>>
    /\ log = "none"
    /\ targetAtEntry = critic
    /\ syncs = 0

InitDQN == BufferInit /\ AgentInit /\ NoUpdater

\* the training loop stores one environment step in the buffer
Collect ==
    /\ pc = "idle"
    /\ numAdds < MaxCollect
    /\ \E observation \in ObsVals, action \in Actions, reward \in Rewards,
          next_observation \in ObsVals, done \in Dones :
          add_trajectory(observation, action, reward, next_observation, done)
    /\ lastOp' = "add"
    /\ batch_inds' = <<>>
    /\ trajectories' = NoTrajectories
    /\ raised' = FALSE
    /\ log' = "none"
    /\ UNCHANGED <<pc, critic, target_critic, gamma, fit_args, i, next_q_values,
                   target_q_values, critic_losses, targetAtEntry, syncs>>
    /\ UNCHANGED upd

\* _fit is called: critic_losses = zeros(critic_epochs), the loop starts
FitEnter ==
    /\ pc = "idle"
    /\ \E batch_size \in 1..MaxBatchSize, critic_epochs \in 1..MaxEpochs :
          fit_args' = [batch_size |-> batch_size, critic_epochs |-> critic_epochs]
    /\ pc' = "sample"
    /\ i' = 0
    /\ critic_losses' = <<>>
    /\ next_q_values' = <<>>
    /\ target_q_values' = <<>>
    /\ log' = "none"
    /\ targetAtEntry' = target_critic
    /\ syncs' = 0
    /\ lastOp' = "fit_enter"
    /\ batch_inds' = <<>>
    /\ trajectories' = NoTrajectories
    /\ raised' = FALSE
    /\ UNCHANGED <<bufVars, histVars, critic, target_critic, gamma>>
    /\ UNCHANGED upd

\* trajectories = self.buffer.sample(batch_size=batch_size); an exception
\* of sample propagates out of _fit
FitSample ==
    /\ pc = "sample"
    /\ i < fit_args.critic_epochs
    /\ sample(fit_args.batch_size)
    /\ pc' = IF raised' THEN "error" ELSE "target"
    /\ lastOp' = "sample"
    /\ UNCHANGED <<bufVars, histVars, critic, target_critic, gamma, fit_args, i,
                   next_q_values, target_q_values, critic_losses, log,
                   targetAtEntry, syncs>>
    /\ UNCHANGED upd

FitTargetSwapped ==
    /\ pc = "target"
    /\ next_q_values' = [k \in 1..Len(batch_inds) |->
                            MaxQ(target_critic, trajectories.next_observations[k])]
    /\ target_q_values' = TD_zero(trajectories.rewards, trajectories.dones,
                                  next_q_values', gamma)
    /\ pc' = "update"
    /\ lastOp' = "target"
    /\ UNCHANGED <<bufVars, histVars, sampleVars, critic, target_critic, gamma,
                   fit_args, i, critic_losses, log, targetAtEntry, syncs>>
    /\ UNCHANGED upd

FitTargetRewardAsDone ==
    /\ pc = "target"
    /\ next_q_values' = [k \in 1..Len(batch_inds) |->
                            MaxQ(target_critic, trajectories.next_observations[k])]
    /\ target_q_values' = TD_zero(trajectories.rewards, next_q_values',
                                  trajectories.rewards, gamma)
    /\ pc' = "update"
    /\ lastOp' = "target"
    /\ UNCHANGED <<bufVars, histVars, sampleVars, critic, target_critic, gamma,
                   fit_args, i, critic_losses, log, targetAtEntry, syncs>>
    /\ UNCHANGED upd

\* the no_grad block: next_q_values from the target critic, then TD_zero
FitTarget ==
    /\ pc = "target"
    /\ next_q_values' = [k \in 1..Len(batch_inds) |->
                            MaxQ(target_critic, trajectories.next_observations[k])]
    /\ target_q_values' = TD_zero(trajectories.rewards, next_q_values',
                                  trajectories.dones, gamma)
    /\ pc' = "update"
    /\ lastOp' = "target"
    /\ UNCHANGED <<bufVars, histVars, sampleVars, critic, target_critic, gamma,
                   fit_args, i, critic_losses, log, targetAtEntry, syncs>>
    /\ UNCHANGED upd

FitUpdateSyncInLoop ==
    /\ pc = "update"
    /\ critic' \in updater(critic)
    /\ target_critic' = assign_targets(critic', target_critic)
    /\ critic_losses' = Append(critic_losses,
                               Loss(critic, trajectories.observations,
                                    trajectories.actions, target_q_values))
    /\ i' = i + 1
    /\ pc' = "sample"
    /\ lastOp' = "update"
    /\ UNCHANGED <<bufVars, histVars, sampleVars, gamma, fit_args,
                   next_q_values, target_q_values, log, targetAtEntry, syncs>>
    /\ UNCHANGED upd

\* updater_log = self.updater(...); critic_losses[i] = updater_log.loss
FitUpdate ==
    /\ pc = "update"
    /\ critic' \in updater(critic)
    /\ critic_losses' = Append(critic_losses,
                               Loss(critic, trajectories.observations,
                                    trajectories.actions, target_q_values))
    /\ i' = i + 1
    /\ pc' = "sample"
    /\ lastOp' = "update"
    /\ UNCHANGED <<bufVars, histVars, sampleVars, target_critic, gamma, fit_args,
                   next_q_values, target_q_values, log, targetAtEntry, syncs>>
    /\ UNCHANGED upd

FitSyncMissing ==
    /\ pc = "sample"
    /\ i = fit_args.critic_epochs
    /\ log' = [critic_loss_sum |-> Sum(critic_losses), epochs |-> fit_args.critic_epochs]
    /\ pc' = "idle"
    /\ lastOp' = "fit_return"
    /\ UNCHANGED <<bufVars, histVars, sampleVars, critic, target_critic, gamma,
                   fit_args, i, next_q_values, target_q_values, critic_losses,
                   targetAtEntry, syncs>>
    /\ UNCHANGED upd

FitSyncInsideLoop ==
    /\ pc = "sample"
    /\ i >= 1
    /\ target_critic' = assign_targets(critic, target_critic)
    /\ syncs' = syncs + 1
    /\ log' = [critic_loss_sum |-> Sum(critic_losses), epochs |-> fit_args.critic_epochs]
    /\ pc' = IF i = fit_args.critic_epochs THEN "idle" ELSE "sample"
    /\ lastOp' = IF i = fit_args.critic_epochs THEN "fit_return" ELSE "update"
    /\ UNCHANGED <<bufVars, histVars, sampleVars, critic, gamma, fit_args, i,
                   next_q_values, target_q_values, critic_losses, targetAtEntry>>
    /\ UNCHANGED upd

\* after the loop: self.model.assign_targets(); return Log(mean of losses)
FitSync ==
    /\ pc = "sample"
    /\ i = fit_args.critic_epochs
    /\ target_critic' = assign_targets(critic, target_critic)
    /\ syncs' = syncs + 1
    /\ log' = [critic_loss_sum |-> Sum(critic_losses), epochs |-> fit_args.critic_epochs]
    /\ pc' = "idle"
    /\ lastOp' = "fit_return"
    /\ UNCHANGED <<bufVars, histVars, sampleVars, critic, gamma, fit_args, i,
                   next_q_values, target_q_values, critic_losses, targetAtEntry>>
    /\ UNCHANGED upd

NextDQN == Collect \/ FitEnter \/ FitSample \/ FitTarget \/ FitUpdate \/ FitSync

SpecDQN == InitDQN /\ [][NextDQN]_vars

----------------------------------------------------------------------------
(* The regression updater: DeepRegression.__call__ and                     *)
(* BaseDeepUpdater.run_optimizer (src/pearll/updaters/environment.py).     *)
(* The model is a single weight w with prediction w * x, the loss is the   *)
(* squared error against the target y, and the optimizer's step is plain   *)
(* gradient descent with the learning rate as the unit.                    *)
(* model.parameters() is an iterator (run_optimizer declares its argument  *)
(* Iterator[T.nn.Parameter]): it yields each parameter once.  The          *)
(* optimizer's constructor reads it to its end to register the parameters, *)
(* and the same iterator object is what __call__ then passes on to         *)
(* run_optimizer for clip_grad_norm_.                                      *)

Inputs == 1..MaxInput
Targets == 0..MaxTarget
MaxGrads == (0 - 1)..MaxGradBound

\* model.parameters(): a fresh iterator over the parameters of the model
ModelParameters == <<"w">>

\* the iterator after a consumer has read it to its end
Exhausted(iterator) == <<>>

Abs(n) == IF n < 0 THEN 0 - n ELSE n

\* loss_class(model(observations, actions), targets): squared error
RegressionLoss(w, x, y) == (w * x - y) * (w * x - y)

\* loss.backward(): d loss / d w
Gradient(w, x, y) == 2 * (w * x - y) * x

\* T.nn.utils.clip_grad_norm_(parameters, max_norm): the gradients of the
\* parameters the iterator yields are scaled so that their norm is at most
\* max_norm; parameters it does not yield keep their gradient
ClipGradNorm(parameters, g, max_norm) ==
    IF Len(parameters) = 0 THEN g
    ELSE IF Abs(g) > max_norm THEN (IF g < 0 THEN 0 - max_norm ELSE max_norm)
    ELSE g

\* the test of run_optimizer that decides whether clip_grad_norm_ is called
Clips(max_grad) == max_grad > 0

UpdaterInit ==
    \E w \in 0..MaxParam, max_grad \in MaxGrads :
        upd = [pc |-> "idle", max_grad |-> max_grad, w |-> w, grad |-> <<>>,
               x |-> 0, y |-> 0, params |-> <<>>, optimizer |-> <<>>,
               loss |-> <<>>, reported |-> <<>>, calls |-> 0,
               \* history
               wAtCall |-> w, rawGrad |-> 0, clipSeen |-> <<>>, ops |-> <<>>]

InitUpdater ==
    /\ BufferInit /\ buffer_size = 1
    /\ NoAgent
    /\ UpdaterInit

\* __call__ is entered: params = model.parameters()
UpdCall ==
    /\ upd.pc \in {"idle", "returned"}
    /\ upd.calls < MaxUpdaterCalls
    /\ \E x \in Inputs, y \in Targets :
          upd' = [upd EXCEPT !.pc = "params", !.x = x, !.y = y,
                             !.params = ModelParameters, !.optimizer = <<>>,
                             !.loss = <<>>, !.reported = <<>>,
                             !.calls = @ + 1, !.wAtCall = upd.w, !.rawGrad = 0,
                             !.clipSeen = <<>>, !.ops = <<>>]
    /\ UNCHANGED otherVars

\* optimizer = self.optimizer_class(params, lr=learning_rate)
UpdMakeOptimizer ==
    /\ upd.pc = "params"
    /\ upd' = [upd EXCEPT !.pc = "optimizer", !.optimizer = upd.params,
                          !.params = Exhausted(upd.params)]
    /\ UNCHANGED otherVars

\* loss = self.loss_class(model(observations, actions), targets)
UpdLoss ==
    /\ upd.pc = "optimizer"
    /\ upd' = [upd EXCEPT !.pc = "loss",
                          !.loss = <<RegressionLoss(upd.w, upd.x, upd.y)>>]
    /\ UNCHANGED otherVars

\* run_optimizer: optimizer.zero_grad()
UpdZeroGrad ==
    /\ upd.pc = "loss"
    /\ upd' = [upd EXCEPT !.pc = "zero", !.grad = <<>>,
                          !.ops = Append(@, "zero_grad")]
    /\ UNCHANGED otherVars

\* run_optimizer: loss.backward()
UpdBackward ==
    /\ upd.pc = "zero"
    /\ upd' = [upd EXCEPT !.pc = "backward",
                          !.grad = <<Gradient(upd.w, upd.x, upd.y)>>,
                          !.rawGrad = Gradient(upd.w, upd.x, upd.y),
                          !.ops = Append(@, "backward")]
    /\ UNCHANGED otherVars

\* run_optimizer: if self.max_grad > 0: clip_grad_norm_(model_parameters, ...)
UpdClip ==
    /\ upd.pc = "backward"
    /\ Clips(upd.max_grad)
    /\ upd' = [upd EXCEPT !.pc = "clip",
                          !.grad = <<ClipGradNorm(upd.params, upd.grad[1], upd.max_grad)>>,
                          !.clipSeen = upd.params,
                          !.params = Exhausted(upd.params),
                          !.ops = Append(@, "clip")]
    /\ UNCHANGED otherVars

\* run_optimizer: optimizer.step() on the parameters the optimizer holds
UpdStep ==
    /\ \/ upd.pc = "clip"
       \/ upd.pc = "backward" /\ ~Clips(upd.max_grad)
    /\ upd' = [upd EXCEPT !.pc = "step",
                          !.w = IF Len(upd.optimizer) = 0 THEN @ ELSE @ - upd.grad[1],
                          !.ops = Append(@, "step")]
    /\ UNCHANGED otherVars

UpdReturnRecomputed ==
    /\ upd.pc = "step"
    /\ upd' = [upd EXCEPT !.pc = "returned",
                          !.reported = <<RegressionLoss(upd.w, upd.x, upd.y)>>]
    /\ UNCHANGED otherVars

\* return UpdaterLog(loss=loss.detach().item())
UpdReturn ==
    /\ upd.pc = "step"
    /\ upd' = [upd EXCEPT !.pc = "returned", !.reported = upd.loss]
    /\ UNCHANGED otherVars

NextUpdater ==
    \/ UpdCall \/ UpdMakeOptimizer \/ UpdLoss \/ UpdZeroGrad \/ UpdBackward
    \/ UpdClip \/ UpdStep \/ UpdReturn

SpecUpdater == InitUpdater /\ [][NextUpdater]_vars

----------------------------------------------------------------------------
(* Properties of the buffer, checked under Spec *)

Sampled == lastOp = "sample" /\ ~raised

BatchPositions == 1..Len(batch_inds)

\* C1: whenever the buffer is full, no index drawn by sample equals the
\* write cursor pos (with C = 3 and 3 insertions, index 0 is never drawn)
C1_FullSampleExcludesCursor ==
    (Sampled /\ full) => \A k \in BatchPositions : batch_inds[k] # pos

C1_Witness ==
    /\ Sampled /\ full
    /\ buffer_size = 3 /\ numAdds = 3 /\ pos = 0
    /\ Len(batch_inds) = 2 /\ batch_inds[1] # batch_inds[2]

\* C2 (as claimed): whenever the buffer is full, the next_observation
\* returned for every drawn index i is the next_observation passed to the
\* add_trajectory call that most recently wrote slot i, whatever the
\* arguments of the calls were
C2_Original ==
    (Sampled /\ full) =>
        \A k \in BatchPositions :
            trajectories.next_observations[k] = nextArg[batch_inds[k]]

\* C2 (amended): whenever the buffer is full, the next_observation returned
\* for a drawn index i is the value last written to slot (i+1) mod C: the
\* next_observation of the call that wrote slot i when no later call has
\* written slot (i+1) mod C, and otherwise the observation argument of that
\* later call
C2_NextObservationIsLastWrite ==
    (Sampled /\ full) =>
        \A k \in BatchPositions :
            LET ind == batch_inds[k]
                j == (ind + 1) % buffer_size
            IN trajectories.next_observations[k] =
                   IF slotCall[j] > slotCall[ind] THEN obsArg[j] ELSE nextArg[ind]

C2_Witness ==
    /\ Sampled /\ full
    /\ \E k \in BatchPositions :
          LET ind == batch_inds[k]
              j == (ind + 1) % buffer_size
          IN /\ slotCall[j] > slotCall[ind]
             /\ obsArg[j] # nextArg[ind]
             /\ trajectories.next_observations[k] = obsArg[j]

\* C3 (as claimed): after n <= C add_trajectory calls on a fresh buffer,
\* full is false and pos = n
C3_Original ==
    numAdds <= buffer_size => (full = FALSE /\ pos = numAdds)

\* C3 (amended): after n < C add_trajectory calls on a fresh buffer, full is
\* false and pos = n
C3_BelowCapacity ==
    numAdds < buffer_size => (full = FALSE /\ pos = numAdds)

C3_Witness ==
    /\ lastOp = "add"
    /\ buffer_size = 3 /\ numAdds = 2 /\ pos = 2 /\ ~full

\* C4: after exactly C add_trajectory calls on a fresh buffer, full is true
\* and pos is 0
C4_AtCapacity ==
    numAdds = buffer_size => (full = TRUE /\ pos = 0)

C4_Witness ==
    /\ lastOp = "add"
    /\ buffer_size = 3 /\ numAdds = 3 /\ full /\ pos = 0

\* C5: while the buffer is not full and 1 <= pos < C, every index drawn by
\* sample lies in [0, pos) and names a slot whose action, reward and done
\* were written by an earlier add_trajectory call
C5_NotFullSampleWritten ==
    (Sampled /\ ~full /\ pos >= 1) =>
        \A k \in BatchPositions :
            /\ batch_inds[k] \in 0..(pos - 1)
            /\ slotCall[batch_inds[k]] \in 1..numAdds

C5_Witness ==
    /\ Sampled /\ ~full
    /\ buffer_size = 3 /\ pos = 2
    /\ Len(batch_inds) = 2 /\ batch_inds[1] = 0 /\ batch_inds[2] = 1

\* C6 (as claimed): while the buffer is not full, no sample reads
\* observations[pos] as a next_observation
C6_Original ==
    (Sampled /\ ~full) =>
        \A k \in BatchPositions : (batch_inds[k] + 1) % buffer_size # pos

\* C6 (amended): while the buffer is not full, every next_observation that
\* sample reads comes from a slot in 1..pos that an add_trajectory call has
\* written; observations[pos] is read exactly for the most recently written
\* slot pos-1, and it then holds the next_observation passed to the most
\* recent add_trajectory call
C6_NextReadWithinWritten ==
    (Sampled /\ ~full) =>
        \A k \in BatchPositions :
            LET ind == batch_inds[k]
                j == (ind + 1) % buffer_size
            IN /\ j \in 1..pos
               /\ obsCall[j] \in 1..numAdds
               /\ (j = pos) <=> (ind = pos - 1)
               /\ (j = pos) =>
                     /\ obsRole[j] = "next"
                     /\ obsCall[j] = numAdds
                     /\ trajectories.next_observations[k] = nextArg[ind]

C6_Witness ==
    /\ Sampled /\ ~full
    /\ buffer_size = 3 /\ pos = 2
    /\ \E k \in BatchPositions :
          /\ batch_inds[k] = pos - 1
          /\ trajectories.next_observations[k] = nextArg[pos - 1]
          /\ trajectories.next_observations[k] # obsArg[pos - 1]

----------------------------------------------------------------------------
(* Properties of DQN._fit, checked under SpecDQN *)

\* the TD targets of the current batch have been computed
TargetsComputed == pc = "update"

\* C7: the target of every batch element is
\* reward + gamma * (1 - done) * next_Q, where next_Q is the target critic's
\* largest value for that element's next observation; with gamma = 1,
\* reward = 1, next value = 1 and done = 0 the target is 2
C7_TargetIsBootstrapped ==
    TargetsComputed =>
        /\ Len(target_q_values) = Len(batch_inds)
        /\ \A k \in BatchPositions :
              /\ next_q_values[k] = MaxQ(target_critic, trajectories.next_observations[k])
              /\ target_q_values[k] =
                     GammaScale * trajectories.rewards[k]
                     + gamma * (1 - trajectories.dones[k]) * next_q_values[k]
              /\ (/\ gamma = GammaScale
                  /\ trajectories.rewards[k] = 1
                  /\ next_q_values[k] = 1
                  /\ trajectories.dones[k] = 0) => target_q_values[k] = 2 * GammaScale

C7_Witness ==
    /\ TargetsComputed
    /\ gamma = GammaScale
    /\ Len(batch_inds) = 2
    /\ \A k \in BatchPositions :
          /\ trajectories.rewards[k] = 1
          /\ next_q_values[k] = 1
          /\ trajectories.dones[k] = 0
          /\ target_q_values[k] = 2 * GammaScale

\* C8: for every batch element whose done flag is 1 the target is that
\* element's reward alone, whatever the target critic's estimate for the
\* sampled next observation
C8_TerminalTargetIsReward ==
    TargetsComputed =>
        \A k \in BatchPositions :
            trajectories.dones[k] = 1 =>
                target_q_values[k] = GammaScale * trajectories.rewards[k]

C8_Witness ==
    /\ TargetsComputed
    /\ gamma > 0
    /\ \E k \in BatchPositions :
          /\ trajectories.dones[k] = 1
          /\ next_q_values[k] > 0
          /\ target_q_values[k] = GammaScale * trajectories.rewards[k]

\* C9: when _fit returns, which is immediately after assign_targets, every
\* target-critic parameter equals the corresponding online-critic parameter
C9_TargetEqualsOnlineAfterSync ==
    lastOp = "fit_return" =>
        /\ syncs = 1
        /\ \A a \in Actions : target_critic[a] = critic[a]

C9_Witness ==
    /\ lastOp = "fit_return"
    /\ critic # targetAtEntry
    /\ target_critic = critic

\* C10: while _fit runs its epochs the target critic keeps the parameters
\* it had when _fit was entered, and every TD target of the call is computed
\* from those parameters
C10_TargetFrozenDuringEpochs ==
    pc \in {"sample", "target", "update", "error"} =>
        /\ target_critic = targetAtEntry
        /\ syncs = 0
        /\ TargetsComputed =>
              \A k \in BatchPositions :
                  next_q_values[k] = MaxQ(targetAtEntry, trajectories.next_observations[k])

C10_Witness ==
    /\ TargetsComputed
    /\ i = 1
    /\ critic # targetAtEntry
    /\ target_critic = targetAtEntry
    /\ \E k \in BatchPositions :
          next_q_values[k] # MaxQ(critic, trajectories.next_observations[k])

----------------------------------------------------------------------------
(* Further properties of the buffer, checked under Spec *)

\* the buffer as allocated: nothing written
Untouched ==
    /\ pos = 0 /\ full = FALSE
    /\ \A s \in Slots :
          observations[s] = 0 /\ actions[s] = 0 /\ rewards[s] = 0 /\ dones[s] = 0

\* C12 (as claimed): sample on a buffer into which nothing has been written
\* does not raise and leaves pos, full and the arrays unchanged
C12_Original ==
    (lastOp = "sample" /\ numAdds = 0) => (~raised /\ Untouched)

\* C12 (amended): sample on a buffer into which nothing has been written
\* has no guard of its own, but the draw from the empty range [0, 0) raises,
\* so no batch is returned; pos, full and the arrays are left unchanged
C12_EmptySampleRaises ==
    (lastOp = "sample" /\ numAdds = 0) =>
        /\ raised
        /\ batch_inds = <<>> /\ trajectories = NoTrajectories
        /\ Untouched

C12_Witness ==
    /\ lastOp = "sample" /\ numAdds = 0 /\ raised
    /\ buffer_size = 3 /\ Untouched

\* the calls (1..numAdds) whose cursor was slot s
CallsOfSlot(s) == {m \in 1..numAdds : (m - 1) % buffer_size = s}

LastCallOfSlot(s) ==
    IF CallsOfSlot(s) = {} THEN 0
    ELSE CHOOSE m \in CallsOfSlot(s) : \A other \in CallsOfSlot(s) : other <= m

C13_RingState ==
    /\ pos \in 0..(buffer_size - 1)
    /\ pos = numAdds % buffer_size
    /\ full = (numAdds >= buffer_size)
    /\ \A s \in Slots : slotCall[s] = LastCallOfSlot(s)

C13_RingStep ==
    /\ full => full'
    /\ numAdds' = numAdds + 1 =>
          /\ slotCall'[numAdds % buffer_size] = numAdds + 1
          /\ \A s \in Slots \ {numAdds % buffer_size} :
                /\ slotCall'[s] = slotCall[s]
                /\ actions'[s] = actions[s]
                /\ rewards'[s] = rewards[s]
                /\ dones'[s] = dones[s]

\* C13: entries are overwritten in ring order: the n-th add_trajectory call
\* (from 0) writes action, reward and done of slot n mod C and no other
\* slot's, afterwards pos = (n+1) mod C and full = (n+1 >= C); pos stays in
\* 0..C-1 and full never goes back to false
C13_FifoRingOrder == [](C13_RingState) /\ [][C13_RingStep]_vars

C13_Witness ==
    /\ buffer_size = 3 /\ numAdds = 4
    /\ pos = 1 /\ full
    /\ slotCall[0] = 4 /\ slotCall[1] = 2 /\ slotCall[2] = 3

\* the indices sample can draw in the current state, as sample computes them
SampleIndices == {SampleOffset(draw) : draw \in SampleLow..(SampleHigh - 1)}

\* observations[s] was written as the observation argument of the call that
\* wrote the action, reward and done of slot s
OwnObservation(s) ==
    /\ slotCall[s] >= 1
    /\ obsCall[s] = slotCall[s]
    /\ obsRole[s] = "obs"
    /\ observations[s] = obsArg[s]

\* C16: for every index that sample can draw, the observation, action,
\* reward and done of the slot were written by the same add_trajectory call;
\* among the slots that hold a transition, only slot pos of a full buffer
\* can hold an observation written by another call (as its
\* next_observation); a returned batch carries those observations
C16_TransitionsConsistent ==
    /\ \A s \in SampleIndices : OwnObservation(s)
    /\ \A s \in Slots :
          (slotCall[s] >= 1 /\ ~OwnObservation(s)) => (full /\ s = pos)
    /\ Sampled =>
          \A k \in BatchPositions :
              /\ OwnObservation(batch_inds[k])
              /\ trajectories.observations[k] = obsArg[batch_inds[k]]
              /\ trajectories.actions[k] = actions[batch_inds[k]]
              /\ trajectories.rewards[k] = rewards[batch_inds[k]]
              /\ trajectories.dones[k] = dones[batch_inds[k]]

C16_Witness ==
    /\ Sampled /\ full /\ buffer_size = 3 /\ numAdds = 4
    /\ obsCall[pos] # slotCall[pos]
    /\ observations[pos] # obsArg[pos]
    /\ \E k \in BatchPositions : batch_inds[k] = (pos + 1) % buffer_size

\* C17: when the buffer is full the indices sample can draw are exactly
\* {0..C-1} \ {pos}: the C-1 most recently inserted transitions, the oldest
\* one (slot pos) excluded; with C = 1 the index range is empty whether or
\* not the buffer is full, and sample never returns a transition
C17_FullSampleRange ==
    /\ full =>
          /\ SampleIndices = Slots \ {pos}
          /\ {slotCall[s] : s \in SampleIndices} =
                 (numAdds - buffer_size + 2)..numAdds
          /\ slotCall[pos] = numAdds - buffer_size + 1
    /\ Sampled => \A k \in BatchPositions : batch_inds[k] \in SampleIndices
    /\ buffer_size = 1 =>
          /\ SampleIndices = {}
          /\ lastOp = "sample" => (raised /\ batch_inds = <<>>)

C17_Witness ==
    /\ Sampled /\ full /\ buffer_size = 3 /\ pos = 1
    /\ {batch_inds[k] : k \in BatchPositions} = {0, 2}

C17_WitnessCapacityOne ==
    /\ buffer_size = 1 /\ full /\ lastOp = "sample" /\ raised

\* what the add_trajectory calls so far have left in observations[s]
WrittenObservation(s) ==
    IF obsRole[s] = "obs" THEN obsArg[s]
    ELSE IF obsRole[s] = "next" THEN nextArg[(s + buffer_size - 1) % buffer_size]
    ELSE 0

C18_SampleStep ==
    lastOp' = "sample" =>
        /\ UNCHANGED <<buffer_size, pos, full, observations, actions, rewards, dones>>
        /\ UNCHANGED histVars

C18_StateFromAdds ==
    /\ pos = numAdds % buffer_size
    /\ full = (numAdds >= buffer_size)
    /\ \A s \in Slots : observations[s] = WrittenObservation(s)

\* C18: sample is read-only on the buffer: whatever the batch size and
\* whether it returns or raises, pos, full and the four arrays are the same
\* after the call as before, so the buffer state is the one the
\* add_trajectory calls alone produce, however sample calls are interleaved
C18_SampleReadOnly == [][C18_SampleStep]_vars /\ [](C18_StateFromAdds)

C18_Witness ==
    /\ Sampled /\ ~full /\ buffer_size = 2 /\ pos = 1
    /\ Len(batch_inds) = 1
    /\ observations[0] = 1 /\ rewards[0] = 1 /\ dones[0] = 1

----------------------------------------------------------------------------
(* Order of the steps of DQN._fit, checked under SpecDQN *)

InFit == pc \in {"sample", "target", "update"}

C14_FitState ==
    /\ InFit =>
          /\ syncs = 0
          /\ Len(critic_losses) = i
          /\ i <= fit_args.critic_epochs
    /\ pc = "target" => (lastOp = "sample" /\ ~raised)
    /\ pc = "update" =>
          /\ lastOp = "target"
          /\ Len(target_q_values) = Len(batch_inds)
          /\ target_q_values = TD_zero(trajectories.rewards, next_q_values,
                                       trajectories.dones, gamma)
          /\ \A k \in BatchPositions :
                next_q_values[k] = MaxQ(target_critic, trajectories.next_observations[k])
    /\ lastOp = "fit_return" =>
          /\ syncs = 1
          /\ i = fit_args.critic_epochs
          /\ Len(critic_losses) = fit_args.critic_epochs

C14_FitStep ==
    /\ lastOp' = "sample" =>
          /\ lastOp \in {"fit_enter", "update"}
          /\ i' = i /\ i < fit_args.critic_epochs
          /\ syncs' = 0
    /\ lastOp' = "target" =>
          /\ lastOp = "sample"
          /\ UNCHANGED <<sampleVars, i, critic, target_critic, syncs>>
    /\ lastOp' = "update" =>
          /\ lastOp = "target"
          /\ i' = i + 1
          /\ UNCHANGED <<sampleVars, target_q_values, target_critic, syncs>>
    /\ lastOp' = "fit_return" =>
          /\ lastOp = "update"
          /\ i = fit_args.critic_epochs
          /\ syncs = 0 /\ syncs' = 1

\* C14: a _fit call that returns with critic_epochs = k has run, for each of
\* the k epochs in order, one buffer.sample, then the TD-target computation
\* on that batch from the target critic, then one updater step; and
\* assign_targets has run exactly once, after the last updater step and
\* never between epochs
C14_FitOrder == [](C14_FitState) /\ [][C14_FitStep]_vars

C14_Witness ==
    /\ lastOp = "fit_return"
    /\ fit_args.critic_epochs = 2 /\ i = 2 /\ syncs = 1
    /\ Len(critic_losses) = 2
    /\ Len(batch_inds) = 2

----------------------------------------------------------------------------
(* Properties of the regression updater, checked under SpecUpdater *)

Stepped == upd.pc \in {"step", "returned"}

\* C11: gradient-norm clipping to max_grad is applied to the model's
\* parameters, after backpropagation and before the parameter update, if
\* and only if max_grad > 0: the update then uses the clipped gradient, and
\* with max_grad = 0 it uses the gradient as backpropagated
C11_ClipIffPositive ==
    Stepped =>
        IF upd.max_grad > 0
        THEN /\ upd.clipSeen = ModelParameters
             /\ Abs(upd.grad[1]) <= upd.max_grad
             /\ upd.w = upd.wAtCall
                        - ClipGradNorm(ModelParameters, upd.rawGrad, upd.max_grad)
        ELSE /\ upd.clipSeen = <<>>
             /\ upd.grad[1] = upd.rawGrad
             /\ upd.w = upd.wAtCall - upd.rawGrad

\* what the code does instead: clip_grad_norm_ is called exactly when
\* max_grad > 0, but on the iterator the optimizer has already read to its
\* end, so it sees no parameter and the update uses the unclipped gradient
C11_ClipSeesNoParameter ==
    Stepped =>
        /\ upd.clipSeen = <<>>
        /\ upd.grad[1] = upd.rawGrad
        /\ upd.w = upd.wAtCall - upd.rawGrad
        /\ (\E k \in 1..Len(upd.ops) : upd.ops[k] = "clip") <=> upd.max_grad > 0

C11_FailingRun ==
    /\ upd.pc = "returned"
    /\ upd.max_grad = 1
    /\ upd.rawGrad = 0 - 2
    /\ upd.w = upd.wAtCall + 2

\* C15: each __call__ performs exactly one optimization step, in the order
\* zero gradients, backpropagate, (clip call if max_grad > 0), parameter
\* update, and the loss it reports is the loss of the predictions made
\* before that update
C15_OneStepInOrder ==
    /\ upd.pc \in {"params", "optimizer", "loss", "zero", "backward", "clip"} =>
          upd.w = upd.wAtCall
    /\ upd.pc = "returned" =>
          /\ upd.ops = IF upd.max_grad > 0
                       THEN <<"zero_grad", "backward", "clip", "step">>
                       ELSE <<"zero_grad", "backward", "step">>
          /\ upd.w = upd.wAtCall - upd.grad[1]
          /\ upd.reported = <<RegressionLoss(upd.wAtCall, upd.x, upd.y)>>

C15_Witness ==
    /\ upd.pc = "returned"
    /\ upd.calls = 2
    /\ upd.ops = <<"zero_grad", "backward", "clip", "step">>
    /\ upd.w # upd.wAtCall
    /\ upd.reported # <<RegressionLoss(upd.w, upd.x, upd.y)>>

====
